---- MODULE Spec2Model ----
(***************************************************************************)
(* useValidation (src/src/index.ts): an adapter that awaits a Standard     *)
(* Schema validator on a reactive data source, turns the flat list of     *)
(* path-addressed issues into the nested `issues` object, and revalidates *)
(* from a watcher while `issues` has keys.  The file holds the composable  *)
(* in two forms (lines 12-43 and 56-122) that clear, walk the paths and    *)
(* gate the watcher alike; the model follows lines 12-43, where a leaf     *)
(* holds the issues' messages.                                             *)
(***************************************************************************)
EXTENDS Integers, Sequences, FiniteSets, TLC

(***************************************************************************)
(* Bounds of the model.                                                    *)
(***************************************************************************)
\* longest issue list a validator result carries
MaxIssues == 2
\* explicit validate() calls the caller makes in one behaviour
MaxValidate == 2
\* mutations of the data source in one behaviour
MaxMutate == 1

(***************************************************************************)
(* JavaScript values that can occur inside `issues`.  Every value has the  *)
(* same record shape: kind, own named properties, array elements, and the  *)
(* text of a string.                                                       *)
(***************************************************************************)
NoProps == [k \in {} |-> 0]

Undefined == [kind |-> "undefined", props |-> NoProps, elems |-> <<>>, text |-> <<>>]

\* `{}`
EmptyObject == [kind |-> "object", props |-> NoProps, elems |-> <<>>, text |-> <<>>]

\* `[]`
EmptyArray == [kind |-> "array", props |-> NoProps, elems |-> <<>>, text |-> <<>>]

\* a message string
Str(m) == [kind |-> "string", props |-> NoProps, elems |-> <<>>, text |-> m]

(***************************************************************************)
(* Path segments: property keys that are strings or numbers.               *)
(***************************************************************************)
S(s) == [num |-> FALSE, s |-> s, n |-> 0]

N(n) == [num |-> TRUE, s |-> "", n |-> n]

Digits == <<"0", "1", "2", "3", "4", "5", "6", "7", "8", "9">>

RECURSIVE NumToString(_)
NumToString(n) ==
    IF n < 10 THEN Digits[n + 1]
    ELSE NumToString(n \div 10) \o Digits[(n % 10) + 1]

\* String(key)
String(key) == IF key.num THEN NumToString(key.n) ELSE key.s

\* a property name that is a canonical array index
IsIndex(name) == \E n \in 0..9 : NumToString(n) = name

IndexOf(name) == CHOOSE n \in 0..9 : NumToString(n) = name

(***************************************************************************)
(* Property access on a value of the tree.                                 *)
(***************************************************************************)
\* v[name] for an object or an array
Get(v, name) ==
    IF v.kind = "array" /\ IsIndex(name)
    THEN IF IndexOf(name) < Len(v.elems) THEN v.elems[IndexOf(name) + 1] ELSE Undefined
    ELSE IF name \in DOMAIN v.props THEN v.props[name] ELSE Undefined

\* the elements of an array grown with holes to length n
RECURSIVE Grown(_, _)
Grown(elems, n) == IF Len(elems) >= n THEN elems ELSE Grown(Append(elems, Undefined), n)

\* v[name] = x for an object or an array (an index past the end leaves holes)
Set(v, name, x) ==
    IF v.kind = "array" /\ IsIndex(name)
    THEN [v EXCEPT !.elems = [Grown(v.elems, IndexOf(name) + 1) EXCEPT ![IndexOf(name) + 1] = x]]
    ELSE [v EXCEPT !.props = (name :> x) @@ v.props]

\* the own properties `props` restricted to the names in `keep`
RECURSIVE Only(_, _)
Only(props, keep) ==
    IF keep = {} THEN NoProps
    ELSE LET k == CHOOSE n \in keep : TRUE
         IN (k :> props[k]) @@ Only(props, keep \ {k})

\* delete v[name]
Delete(v, name) == [v EXCEPT !.props = Only(v.props, (DOMAIN v.props) \ {name})]

\* Object.keys(v) of an object
Keys(v) == DOMAIN v.props

\* a push that replaces what the array held
Push_Replace(v, x) == [v EXCEPT !.elems = <<x>>]

\* array.push(x)
Push(v, x) == [v EXCEPT !.elems = Append(v.elems, x)]

\* the value a chain of property reads from `root` arrives at
RECURSIVE ValueAt(_, _)
ValueAt(root, at) ==
    IF at = <<>> THEN root ELSE ValueAt(Get(root, Head(at)), Tail(at))

\* `root` after the value the chain `at` arrives at was changed in place to x
RECURSIVE Update(_, _, _)
Update(root, at, x) ==
    IF at = <<>> THEN x
    ELSE Set(root, Head(at), Update(Get(root, Head(at)), Tail(at), x))

\* level[name] ??= fresh, where level is the value at `at`
OrAssign(root, at, name, fresh) ==
    LET level == ValueAt(root, at)
    IN IF Get(level, name) = Undefined
       THEN Update(root, at, Set(level, name, fresh))
       ELSE root

(***************************************************************************)
(* The validator's results.  A result is `{}` (kind "ok"), a list of       *)
(* issues (kind "issues"), or the validator throws or rejects (kind        *)
(* "throws").  An issue has an optional path and a message.                *)
(***************************************************************************)
Data == {"d1", "d2"}

KeyA == S("a")

KeyB == S("b")

\* the paths validators report in this model: none, the empty path, top-level
\* fields named by a string or a number, nested fields, and paths that run
\* through one another
Paths ==
    { [hasPath |-> FALSE, path |-> <<>>],
      [hasPath |-> TRUE, path |-> <<>>],
      [hasPath |-> TRUE, path |-> <<KeyA>>],
      [hasPath |-> TRUE, path |-> <<N(0)>>],
      [hasPath |-> TRUE, path |-> <<S("0")>>],
      [hasPath |-> TRUE, path |-> <<KeyA, KeyB>>],
      [hasPath |-> TRUE, path |-> <<KeyA, N(0)>>],
      [hasPath |-> TRUE, path |-> <<KeyA, KeyB, KeyB>>] }

PathLists == UNION { [1..n -> Paths] : n \in 0..MaxIssues }

Ok == [kind |-> "ok", paths |-> <<>>]

Throws == [kind |-> "throws", paths |-> <<>>]

Fails(ps) == [kind |-> "issues", paths |-> ps]

\* every validator outcome for one data value
Results == {Ok, Throws} \cup { Fails(ps) : ps \in PathLists }

\* the outcomes used where validate() calls overlap
FewResults ==
    { Ok, Throws,
      Fails(<< [hasPath |-> TRUE, path |-> <<KeyA>>] >>),
      Fails(<< [hasPath |-> TRUE, path |-> <<KeyA, KeyB>>], [hasPath |-> TRUE, path |-> <<KeyB>>] >>) }

\* the message of the i-th issue reported for data value d
Message(d, i) == <<d, i>>

ValidatorError(d) == [name |-> "ValidatorError", of |-> d]

TypeError == [name |-> "TypeError", of |-> ""]

NoError == [name |-> "", of |-> ""]

(***************************************************************************)
(* validate(): the code that runs once the awaited validator has settled.  *)
(***************************************************************************)
\* clearIssues: Object.keys(issues).forEach((key) => delete issues[key])
RECURSIVE DeleteAll(_, _)
DeleteAll(tree, keys) ==
    IF keys = {} THEN tree
    ELSE LET key == CHOOSE k \in keys : TRUE
         IN DeleteAll(Delete(tree, key), keys \ {key})

\* a clearIssues that removes one key only
clearIssues_OneKey(tree) ==
    IF Keys(tree) = {} THEN tree ELSE Delete(tree, CHOOSE k \in Keys(tree) : TRUE)

clearIssues(tree) == DeleteAll(tree, Keys(tree))

\* for (const key of path.slice(0, -1)) currentLevel = currentLevel[String(key)] ??= {}
\* `at` is where currentLevel points.  A string has no own properties to
\* create: reading one gives undefined or a character, the assignment to a
\* primitive throws in strict code and a character has no push either, so a
\* walk that arrives at a string ends in a TypeError with the tree as it is.
RECURSIVE Descend(_, _, _)
Descend(tree, at, keys) ==
    IF keys = <<>> THEN [tree |-> tree, at |-> at, threw |-> FALSE]
    ELSE IF ValueAt(tree, at).kind = "string"
    THEN [tree |-> tree, at |-> at, threw |-> TRUE]
    ELSE Descend(OrAssign(tree, at, String(Head(keys)), EmptyObject),
                 Append(at, String(Head(keys))), Tail(keys))

\* String(path.at(-1))
FinalName(path) == IF path = <<>> THEN "undefined" ELSE String(path[Len(path)])

\* path.slice(0, -1)
Leading(path) == SubSeq(path, 1, Len(path) - 1)

\* the body of the loop over result.issues, for one issue
AddIssue(tree, issue) ==
    IF ~issue.hasPath THEN [tree |-> tree, threw |-> FALSE]
    ELSE LET walk == Descend(tree, <<>>, Leading(issue.path))
             name == FinalName(issue.path)
             made == OrAssign(walk.tree, walk.at, name, EmptyArray)
             fieldIssues == Get(ValueAt(made, walk.at), name)
         IN IF walk.threw \/ ValueAt(walk.tree, walk.at).kind = "string"
            THEN [tree |-> walk.tree, threw |-> TRUE]
            ELSE IF fieldIssues.kind # "array"
            THEN [tree |-> made, threw |-> TRUE]
            ELSE [tree |-> Update(made, Append(walk.at, name),
                                  Push(fieldIssues, Str(issue.message))),
                  threw |-> FALSE]

\* for (const { path, message } of result.issues) ..., stopped by a throw
RECURSIVE Populate(_, _)
Populate(tree, list) ==
    IF list = <<>> THEN [tree |-> tree, threw |-> FALSE]
    ELSE LET one == AddIssue(tree, Head(list))
         IN IF one.threw THEN one ELSE Populate(one.tree, Tail(list))

\* the issues a validator reports for data value d at the paths from the i-th on
RECURSIVE IssuesAt(_, _, _)
IssuesAt(paths, d, i) ==
    IF i > Len(paths) THEN <<>>
    ELSE <<[hasPath |-> paths[i].hasPath, path |-> paths[i].path, message |-> Message(d, i)]>>
         \o IssuesAt(paths, d, i + 1)

\* what the validator gives for data value d under schema sch
Validator(sch, d) ==
    [kind |-> sch[d].kind,
     issues |-> IssuesAt(sch[d].paths, d, 1),
     error |-> ValidatorError(d)]

Resolved(tree, value) == [tree |-> tree, settled |-> "resolved", value |-> value, error |-> NoError]

Rejected(tree, error) == [tree |-> tree, settled |-> "rejected", value |-> FALSE, error |-> error]

\* a validate() that clears only when there are issues to store
Continue_ClearAfterReturn(tree, result) ==
    IF result.kind = "throws" THEN Rejected(tree, result.error)
    ELSE IF result.kind = "ok" THEN Resolved(tree, TRUE)
    ELSE LET built == Populate(clearIssues(tree), result.issues)
         IN IF built.threw THEN Rejected(built.tree, TypeError)
            ELSE Resolved(built.tree, FALSE)

\* a validate() that adds to the tree without clearing it
Continue_NoClear(tree, result) ==
    IF result.kind = "throws" THEN Rejected(tree, result.error)
    ELSE IF result.kind = "ok" THEN Resolved(clearIssues(tree), TRUE)
    ELSE LET built == Populate(tree, result.issues)
         IN IF built.threw THEN Rejected(built.tree, TypeError)
            ELSE Resolved(built.tree, FALSE)

\* a validate() that catches the validator's failure and reports invalid data
Continue_Catch(tree, result) ==
    IF result.kind = "throws" THEN Resolved(tree, FALSE)
    ELSE IF result.kind = "ok" THEN Resolved(clearIssues(tree), TRUE)
    ELSE LET built == Populate(clearIssues(tree), result.issues)
         IN IF built.threw THEN Rejected(built.tree, TypeError)
            ELSE Resolved(built.tree, FALSE)

\* a validate() that clears the tree before it awaits the validator
Continue_ClearFirst(tree, result) ==
    IF result.kind = "throws" THEN Rejected(clearIssues(tree), result.error)
    ELSE IF result.kind = "ok" THEN Resolved(clearIssues(tree), TRUE)
    ELSE LET built == Populate(clearIssues(tree), result.issues)
         IN IF built.threw THEN Rejected(built.tree, TypeError)
            ELSE Resolved(built.tree, FALSE)

\* validate() from the end of its await: the tree it leaves and how its promise settles
Continue(tree, result) ==
    IF result.kind = "throws" THEN Rejected(tree, result.error)
    ELSE IF result.kind = "ok" THEN Resolved(clearIssues(tree), TRUE)
    ELSE LET built == Populate(clearIssues(tree), result.issues)
         IN IF built.threw THEN Rejected(built.tree, TypeError)
            ELSE Resolved(built.tree, FALSE)

(***************************************************************************)
(* The adapter with its two collaborators.                                 *)
(***************************************************************************)
VARIABLES
    data,        \* the data source's current value
    schema,      \* the validator: the outcome it has for each data value
    issues,      \* the reactive issue tree
    pending,     \* validate() calls awaiting the validator: the value each read and who called
    queued,      \* the watcher's callback is queued for the next flush
    nValidate,   \* validate() calls made by the caller
    nMutate,     \* mutations of the data source
    invoked,     \* invocations of the validator
    lastOp,      \* the operation that made the last step
    before,      \* `issues` before the last step
    runs         \* the last two validate() calls that settled, latest last

vars == <<data, schema, issues, pending, queued, nValidate, nMutate, invoked,
          lastOp, before, runs>>

Begin ==
    /\ data = "d1"
    /\ issues = EmptyObject
    /\ pending = <<>>
    /\ queued = FALSE
    /\ nValidate = 0
    /\ nMutate = 0
    /\ invoked = 0
    /\ lastOp = "useValidation"
    /\ before = EmptyObject
    /\ runs = <<>>

\* useValidation(data, schema), for the schemas of overlapping calls
Init == schema \in [Data -> FewResults] /\ Begin

\* useValidation(data, schema), for every result of the first data value
InitAny ==
    /\ \E r \in Results, q \in {Ok, Fails(<< [hasPath |-> TRUE, path |-> <<KeyB>>] >>)} :
          schema = [d \in Data |-> IF d = "d1" THEN r ELSE q]
    /\ Begin

\* const result = await schema['~standard'].validate(toValue(data)), up to the await
Call(by) ==
    /\ pending' = Append(pending, [arg |-> data, by |-> by])
    /\ invoked' = invoked + 1

\* validate(), called by the user of the composable
Validate ==
    /\ nValidate < MaxValidate
    /\ Call("caller")
    /\ nValidate' = nValidate + 1
    /\ lastOp' = "validate"
    /\ before' = issues
    /\ UNCHANGED <<data, schema, issues, queued, nMutate, runs>>

Without(seq, i) == SubSeq(seq, 1, i - 1) \o SubSeq(seq, i + 1, Len(seq))

LastTwo(seq) == IF Len(seq) > 2 THEN SubSeq(seq, Len(seq) - 1, Len(seq)) ELSE seq

\* a validate() that reads the data source when the validator settles
Settle_ReadsLate(i) ==
    LET call == pending[i]
        end == Continue(issues, Validator(schema, data))
    IN /\ issues' = end.tree
       /\ pending' = Without(pending, i)
       /\ runs' = LastTwo(Append(runs, [arg |-> call.arg, by |-> call.by,
                                        settled |-> end.settled, value |-> end.value,
                                        error |-> end.error, tree |-> end.tree]))
       /\ lastOp' = "settle"
       /\ before' = issues
       /\ UNCHANGED <<data, schema, queued, nValidate, nMutate, invoked>>

\* the validator settles for the i-th pending call and validate() runs to its end
Settle(i) ==
    LET call == pending[i]
        end == Continue(issues, Validator(schema, call.arg))
    IN /\ issues' = end.tree
       /\ pending' = Without(pending, i)
       /\ runs' = LastTwo(Append(runs, [arg |-> call.arg, by |-> call.by,
                                        settled |-> end.settled, value |-> end.value,
                                        error |-> end.error, tree |-> end.tree]))
       /\ lastOp' = "settle"
       /\ before' = issues
       /\ UNCHANGED <<data, schema, queued, nValidate, nMutate, invoked>>

Settles == \E i \in 1..Len(pending) : Settle(i)

\* clearIssues(), called by the user of the composable
ClearIssues ==
    /\ issues' = clearIssues(issues)
    /\ lastOp' = "clearIssues"
    /\ before' = issues
    /\ UNCHANGED <<data, schema, pending, queued, nValidate, nMutate, invoked, runs>>

\* the owner of the data source changes it; the watcher's job is queued once
Mutate ==
    /\ nMutate < MaxMutate
    /\ \E d \in Data \ {data} : data' = d
    /\ queued' = TRUE
    /\ nMutate' = nMutate + 1
    /\ lastOp' = "mutate"
    /\ before' = issues
    /\ UNCHANGED <<schema, issues, pending, nValidate, invoked, runs>>

\* a watcher that revalidates on every change
HasIssues_Always(tree) == TRUE

\* a watcher that never revalidates
HasIssues_Never(tree) == FALSE

\* Object.keys(issues).length
HasIssues(tree) == Keys(tree) # {}

\* the watcher's callback: () => Object.keys(issues).length && validate()
Notify ==
    /\ queued
    /\ queued' = FALSE
    /\ before' = issues
    /\ IF HasIssues(issues)
       THEN Call("watch") /\ lastOp' = "revalidate"
       ELSE UNCHANGED <<pending, invoked>> /\ lastOp' = "notify"
    /\ UNCHANGED <<data, schema, issues, nValidate, nMutate, runs>>

Next == Validate \/ Settles \/ ClearIssues \/ Mutate \/ Notify

\* any interleaving of the caller, the data owner, the watcher and the validator
Spec == Init /\ [][Next]_vars

\* a call leaves `pending`; among the steps of Next these are the steps of Settles
Leaves == \E i \in 1..Len(pending) : pending' = Without(pending, i)

\* the watcher's queue is flushed and the validator settles every call
LiveSpec == Spec /\ WF_vars(Notify) /\ WF_pending(Leaves)

\* a caller that awaits each validate() before it does anything else
AwaitedValidate == pending = <<>> /\ Validate

AwaitedMutate == pending = <<>> /\ Mutate

AwaitedClearIssues == pending = <<>> /\ ClearIssues

NextAwaited == AwaitedValidate \/ Settles \/ AwaitedClearIssues \/ AwaitedMutate \/ Notify

AwaitedSpec == InitAny /\ [][NextAwaited]_vars

(***************************************************************************)
(* What the claims speak about.                                            *)
(***************************************************************************)
\* the validate() call that settled last, and the one that settled before it
LastRun == runs[Len(runs)]

PrevRun == runs[Len(runs) - 1]

JustSettled == lastOp = "settle" /\ runs # <<>>

\* the validator's result for the data value a run read
ResultOf(run) == Validator(schema, run.arg)

IssueSet(result) == { result.issues[i] : i \in 1..Len(result.issues) }

\* the result returned a value (the validator did not fail)
Returned(run) == ResultOf(run).kind # "throws"

\* an issue addressed to a field: its path is there and not empty
Addressed(issue) == issue.hasPath /\ issue.path # <<>>

\* the names of a path's segments
RECURSIVE Names(_)
Names(path) == IF path = <<>> THEN <<>> ELSE <<String(Head(path))>> \o Names(Tail(path))

\* the top-level fields a result has issues for
FieldsOf(result) == { Names(i.path)[1] : i \in { j \in IssueSet(result) : Addressed(j) } }

\* the messages a result has for the field at `names`, in the validator's order
RECURSIVE MessagesFor(_, _)
MessagesFor(list, names) ==
    IF list = <<>> THEN <<>>
    ELSE (IF Addressed(Head(list)) /\ Names(Head(list).path) = names
          THEN <<Str(Head(list).message)>> ELSE <<>>) \o MessagesFor(Tail(list), names)

\* every message text held anywhere in a value
RECURSIVE AllText(_)
AllText(v) ==
    (IF v.kind = "string" THEN {v.text} ELSE {})
    \cup UNION { AllText(v.props[k]) : k \in DOMAIN v.props }
    \cup UNION { AllText(v.elems[i]) : i \in 1..Len(v.elems) }

\* a leaf: an array of exactly these messages and nothing else
IsLeaf(v, messages) == v.kind = "array" /\ v.elems = messages /\ v.props = NoProps

(***************************************************************************)
(* C1                                                                      *)
(***************************************************************************)
\* C1: when the validator reports success, validate() resolves to true and
\* the issue tree has no keys right after, whatever it held before.
C1_SuccessEmptiesTree ==
    (JustSettled /\ ResultOf(LastRun).kind = "ok")
        => /\ LastRun.settled = "resolved"
           /\ LastRun.value = TRUE
           /\ Cardinality(Keys(issues)) = 0

\* a successful run has settled on a tree that held several fields
C1_Witness ==
    /\ JustSettled
    /\ ResultOf(LastRun).kind = "ok"
    /\ Cardinality(Keys(before)) >= 2
    /\ LastRun.value = TRUE

(***************************************************************************)
(* C2                                                                      *)
(***************************************************************************)
\* C2: of two successive validate() runs whose validator returned, a field
\* with issues in the first and none in the second is no key of the tree
\* after the second, and every message in the tree is one of the second run.
C2_Replacement ==
    (JustSettled /\ Len(runs) = 2 /\ Returned(LastRun))
        => /\ \A k \in FieldsOf(ResultOf(PrevRun)) \ FieldsOf(ResultOf(LastRun)) :
                 k \notin Keys(issues)
           /\ AllText(issues) \subseteq { i.message : i \in IssueSet(ResultOf(LastRun)) }

\* the second run left issues, on other fields than the first run had
C2_Witness ==
    /\ JustSettled
    /\ Len(runs) = 2
    /\ PrevRun.arg # LastRun.arg
    /\ Keys(issues) # {}
    /\ \E k \in Keys(PrevRun.tree) : k \notin Keys(issues)

(***************************************************************************)
(* C3                                                                      *)
(***************************************************************************)
\* every issue of the result has a path of exactly one segment
DepthOne(result) ==
    /\ result.kind = "issues"
    /\ \A i \in IssueSet(result) : i.hasPath /\ Len(i.path) = 1

Prefix(path, n) == SubSeq(Names(path), 1, n)

\* C4: for every issue with a path of several segments, after validate()
\* every proper prefix of the path is a mapping node of the tree and the
\* path itself is a leaf sequence that holds the issue's message.
C4_NestedPaths ==
    (JustSettled /\ ResultOf(LastRun).kind = "issues")
        => \A i \in IssueSet(ResultOf(LastRun)) :
              (i.hasPath /\ Len(i.path) >= 2)
                  => /\ \A n \in 1..(Len(i.path) - 1) :
                           ValueAt(issues, Prefix(i.path, n)).kind = "object"
                     /\ ValueAt(issues, Names(i.path)).kind = "array"
                     /\ \E j \in 1..Len(ValueAt(issues, Names(i.path)).elems) :
                           ValueAt(issues, Names(i.path)).elems[j] = Str(i.message)

(***************************************************************************)
(* C5                                                                      *)
(***************************************************************************)
\* the result has issues and none of them is addressed to a field
Unaddressed(result) ==
    /\ result.kind = "issues"
    /\ result.issues # <<>>
    /\ \A i \in IssueSet(result) : ~Addressed(i)

\* C5: when the validator returns only issues whose path is absent or
\* empty, validate() resolves to false and the issue tree has no keys.
C5_UnaddressedDropped ==
    (JustSettled /\ Unaddressed(ResultOf(LastRun)))
        => /\ LastRun.settled = "resolved"
           /\ LastRun.value = FALSE
           /\ Cardinality(Keys(issues)) = 0

(***************************************************************************)
(* C6                                                                      *)
(***************************************************************************)
\* C6: clearIssues() leaves the tree without top-level keys, so nothing of
\* a nested branch stays reachable, and leaves an empty tree as it was.
C6_ClearEmptiesTree ==
    (lastOp = "clearIssues")
        => /\ Cardinality(Keys(issues)) = 0
           /\ AllText(issues) = {}
           /\ (Cardinality(Keys(before)) = 0 => issues = before)

\* clearIssues() ran on a tree with a top-level leaf and a nested branch
C6_Witness ==
    /\ lastOp = "clearIssues"
    /\ \E k \in Keys(before) : before.props[k].kind = "object"
    /\ \E k \in Keys(before) : before.props[k].kind = "array"

(***************************************************************************)
(* C7                                                                      *)
(***************************************************************************)
\* the data source was just changed to a value the validator accepts, while
\* the tree shows issues and no validate() call is in flight
FixedWithIssuesShown(n) ==
    /\ nMutate = n
    /\ queued
    /\ schema[data].kind = "ok"
    /\ Keys(issues) # {}
    /\ pending = <<>>

\* C7: once a validate() has left issues in the tree and the data source is
\* changed to a value the validator accepts, the tree becomes empty without
\* the caller doing anything, unless the data source is changed again.
C7_AutoRevalidation ==
    \A n \in 0..MaxMutate :
        FixedWithIssuesShown(n) ~> (Keys(issues) = {} \/ nMutate > n)

\* a validate() started by the watcher, after the caller's only call, has
\* emptied a tree that showed issues
C7_Witness ==
    /\ JustSettled
    /\ LastRun.by = "watch"
    /\ nValidate = 1
    /\ ResultOf(LastRun).kind = "ok"
    /\ Keys(before) # {}
    /\ Keys(issues) = {}

(***************************************************************************)
(* C8                                                                      *)
(***************************************************************************)
\* C8: a change notification invokes the validator exactly when the tree has
\* a top-level key at that time; while the caller has not called validate()
\* the validator is never invoked and the tree stays empty.
C8_RevalidationGate ==
    /\ (lastOp \in {"notify", "revalidate"})
           => ((lastOp = "revalidate") <=> (Cardinality(Keys(before)) >= 1))
    /\ (nValidate = 0) => (invoked = 0 /\ Cardinality(Keys(issues)) = 0)

\* a notification found issues in the tree and invoked the validator
C8_Witness ==
    /\ lastOp = "revalidate"
    /\ Keys(before) # {}
    /\ invoked = nValidate + 1

(***************************************************************************)
(* C9                                                                      *)
(***************************************************************************)
\* C9: when the validator throws or rejects, the promise of validate()
\* rejects with that same failure.
C9_FailurePropagates ==
    (JustSettled /\ ResultOf(LastRun).kind = "throws")
        => /\ LastRun.settled = "rejected"
           /\ LastRun.error = ResultOf(LastRun).error

\* a validate() call has rejected with the validator's failure
C9_Witness ==
    /\ JustSettled
    /\ ResultOf(LastRun).kind = "throws"
    /\ LastRun.settled = "rejected"
    /\ LastRun.error.name = "ValidatorError"

(***************************************************************************)
(* C10                                                                     *)
(***************************************************************************)
\* C10: two successive validate() runs that read the same data value, and
\* whose validator returned, settle alike and leave identical trees.
C10_Idempotence ==
    (JustSettled /\ Len(runs) = 2 /\ PrevRun.arg = LastRun.arg /\ Returned(LastRun))
        => /\ PrevRun.settled = LastRun.settled
           /\ PrevRun.value = LastRun.value
           /\ PrevRun.error = LastRun.error
           /\ PrevRun.tree = issues

\* the second of two runs on the same data has left the same non-empty tree
C10_Witness ==
    /\ JustSettled
    /\ Len(runs) = 2
    /\ PrevRun.arg = LastRun.arg
    /\ LastRun.settled = "resolved"
    /\ Keys(issues) # {}
    /\ PrevRun.tree = issues

(***************************************************************************)
(* C11                                                                     *)
(***************************************************************************)
\* C11: for every validator result with a non-empty issue list validate()
\* resolves to false, also when one issue's path is a proper prefix of
\* another's, and validate() rejects only when the validator itself fails.
C11_NeverRejects ==
    JustSettled
        => /\ (ResultOf(LastRun).kind = "issues" /\ ResultOf(LastRun).issues # <<>>)
                  => (LastRun.settled = "resolved" /\ LastRun.value = FALSE)
           /\ (LastRun.settled = "rejected") => (ResultOf(LastRun).kind = "throws")

(***************************************************************************)
(* C12                                                                     *)
(***************************************************************************)
\* the tree is the complete tree of one validator result: every issue of the
\* result for some data value was stored, starting from an empty tree
CompleteTree(tree) ==
    \E d \in Data :
        /\ Validator(schema, d).kind = "issues"
        /\ ~Populate(EmptyObject, Validator(schema, d).issues).threw
        /\ tree = Populate(EmptyObject, Validator(schema, d).issues).tree

\* C12: clearing and repopulation are one step for every other operation:
\* in every state the tree is empty or the complete tree built from exactly
\* one validator result, never a partly built tree and never a merge of the
\* issues of two runs.
C12_EmptyOrComplete == Cardinality(Keys(issues)) = 0 \/ CompleteTree(issues)

(***************************************************************************)
(* C13                                                                     *)
(***************************************************************************)
\* the tree a result builds from nothing
TreeOf(result) ==
    IF result.kind = "issues" THEN Populate(EmptyObject, result.issues).tree
    ELSE EmptyObject

\* C13: whenever a validate() call resolves, the tree is the one built from
\* the validator's result for the data value that call read when it started,
\* whatever the order in which overlapping calls started and whatever the
\* data source holds by then: the call that resolved last wins.
C13_LastResolvedWins ==
    (JustSettled /\ LastRun.settled = "resolved")
        => /\ issues = TreeOf(ResultOf(LastRun))
           /\ LastRun.value = (ResultOf(LastRun).kind = "ok")

\* the call that read the first data value was still awaiting when a call
\* read the changed value; the later call resolved first, the earlier one
\* last, and the tree shows the issues of the first data value
C13_Witness ==
    /\ JustSettled
    /\ Len(runs) = 2
    /\ nMutate = 1
    /\ data = "d2"
    /\ PrevRun.arg = "d2" /\ PrevRun.settled = "resolved"
    /\ LastRun.arg = "d1" /\ LastRun.settled = "resolved"
    /\ PrevRun.tree # issues
    /\ Keys(issues) # {}
    /\ pending = <<>>

(***************************************************************************)
(* C14                                                                     *)
(***************************************************************************)
\* the data source was just changed, for the n-th time, to a value the
\* validator accepts, while the tree shows issues
ChangedWithIssues(n) ==
    /\ lastOp = "mutate"
    /\ nMutate = n
    /\ schema[data].kind = "ok"
    /\ Keys(issues) # {}

\* the data source was not changed again, the validate() call the watcher
\* started for that change has resolved and no call is awaiting the validator
AllResolved(n) ==
    /\ nMutate = n
    /\ ~queued
    /\ pending = <<>>
    /\ \E i \in 1..Len(runs) :
          runs[i].by = "watch" /\ runs[i].arg = data /\ runs[i].settled = "resolved"

\* C14: if the tree shows issues when the data source is changed to a value
\* the validator accepts, and the data source is not changed again, then
\* once every validate() call started up to the one the change triggered has
\* resolved, the tree is empty; also when a call on the old data was still
\* awaiting the validator at the time of the change.
C14_KeptLive ==
    \A n \in 1..MaxMutate :
        [](ChangedWithIssues(n) => [](AllResolved(n) => Keys(issues) = {}))

(***************************************************************************)
(* C15                                                                     *)
(***************************************************************************)
\* C15: when the validator throws or rejects, validate() reaches neither
\* the clearing nor the population: the tree after the rejection is the
\* tree as it was before, issues of an earlier run included, and the
\* watcher's gate (the tree has a key) is open or closed as it was.
C15_UnchangedOnFailure ==
    (JustSettled /\ ResultOf(LastRun).kind = "throws")
        => /\ LastRun.settled = "rejected"
           /\ issues = before
           /\ (Keys(issues) # {}) <=> (Keys(before) # {})

\* the validator failed for a call made while the tree showed the issues of
\* an earlier run, and those issues are still there
C15_Witness ==
    /\ JustSettled
    /\ ResultOf(LastRun).kind = "throws"
    /\ LastRun.settled = "rejected"
    /\ Len(runs) = 2
    /\ PrevRun.settled = "resolved"
    /\ Keys(before) # {}
    /\ issues = PrevRun.tree

====
